---- MODULE Spec2Model ----
(***************************************************************************)
(* update_packages.py: rewrites the package declaration of the .java files *)
(* found directly inside a fixed list of directories.                      *)
(*                                                                         *)
(* Text is a sequence of tokens.  A token stands for a run of characters   *)
(* that the regular expression of update_package_declaration treats as a   *)
(* unit: the word "package", one white-space character, the two prefixes   *)
(* the pattern accepts, the semicolon, and words without white space or    *)
(* semicolon.  A path is a sequence of tokens too, "/" being one of them.  *)
(***************************************************************************)
EXTENDS Integers, Sequences, FiniteSets, TLC

\* ------------------------------------------------------------------ bounds
MaxLines == 2
MaxRuns == 2

\* ------------------------------------------------------------------ tokens
PKG == "package"
SP == " "
LF == "\n"
CR == "\r"
SEMI == ";"
BACKEND == "org.lareferencia.backend."
CORE == "org.lareferencia.core."
WORD == "x"
BADBYTE == "0xFF"
SLASH == "/"
JAVA == ".java"

Min(S) == CHOOSE m \in S : \A n \in S : m <= n

\* ------------------------------------------------------ static configuration
PACKAGE_MAPPINGS ==
  << [path |-> <<"domain">>, pkg |-> <<CORE, "domain">>],
     [path |-> <<"repository", SLASH, "jpa">>, pkg |-> <<CORE, "repository.jpa">>],
     [path |-> <<"repository", SLASH, "parquet">>, pkg |-> <<CORE, "repository.parquet">>],
     [path |-> <<"service", SLASH, "harvesting">>, pkg |-> <<CORE, "service.harvesting">>],
     [path |-> <<"service", SLASH, "validation">>, pkg |-> <<CORE, "service.validation">>],
     [path |-> <<"service", SLASH, "indexing">>, pkg |-> <<CORE, "service.indexing">>],
     [path |-> <<"service", SLASH, "management">>, pkg |-> <<CORE, "service.management">>],
     [path |-> <<"worker", SLASH, "harvesting">>, pkg |-> <<CORE, "worker.harvesting">>],
     [path |-> <<"worker", SLASH, "validation">>, pkg |-> <<CORE, "worker.validation">>],
     [path |-> <<"worker", SLASH, "validation", SLASH, "validator">>,
      pkg |-> <<CORE, "worker.validation.validator">>],
     [path |-> <<"worker", SLASH, "validation", SLASH, "transformer">>,
      pkg |-> <<CORE, "worker.validation.transformer">>],
     [path |-> <<"worker", SLASH, "indexing">>, pkg |-> <<CORE, "worker.indexing">>],
     [path |-> <<"worker", SLASH, "management">>, pkg |-> <<CORE, "worker.management">>],
     [path |-> <<"task">>, pkg |-> <<CORE, "task">>] >>

base_path ==
  <<"/Users/lmatas/source/lareferencia-platform/lareferencia-core-lib/src/main/java/org/lareferencia/core">>

\* os.path.join(a, b) for a relative b and an a without trailing separator
Join(a, b) == a \o <<SLASH>> \o b

\* faulty variant: the entries in the order of sorted(PACKAGE_MAPPINGS)
ItemsSorted ==
  [k \in 1..Len(PACKAGE_MAPPINGS) |->
     PACKAGE_MAPPINGS[<<1, 2, 3, 4, 6, 7, 5, 14, 8, 12, 13, 9, 11, 10>>[k]]]

\* for relative_path, new_package in PACKAGE_MAPPINGS.items(): a dict keeps
\* its insertion order
Items == PACKAGE_MAPPINGS

\* ------------------------------------------------------------- text mode I/O
IsSpace(t) == t \in {SP, LF, CR}

\* bytes.decode('utf-8') succeeds
Decodable(bytes) == \A k \in 1..Len(bytes) : bytes[k] # BADBYTE

\* open(..., 'r') with newline=None: "\r\n" and "\r" are read as "\n"
RECURSIVE ReadText(_)
ReadText(bytes) ==
  IF bytes = <<>> THEN <<>>
  ELSE IF bytes[1] = CR
       THEN IF Len(bytes) >= 2 /\ bytes[2] = LF
            THEN <<LF>> \o ReadText(SubSeq(bytes, 3, Len(bytes)))
            ELSE <<LF>> \o ReadText(Tail(bytes))
       ELSE <<bytes[1]>> \o ReadText(Tail(bytes))

\* os.linesep of the platform of the hardcoded base path (/Users/...)
LineSep == <<LF>>

\* open(..., 'w') with newline=None: "\n" is written as os.linesep
RECURSIVE WriteText(_)
WriteText(text) ==
  IF text = <<>> THEN <<>>
  ELSE (IF text[1] = LF THEN LineSep ELSE <<text[1]>>) \o WriteText(Tail(text))

\* ------------------------------------------------------ the regular expression
\* faulty variant: the pattern without its ^
AtLineStartAnywhere(s, p) == TRUE

\* ^ under re.MULTILINE: the start of the text or the position after a "\n"
AtLineStart(s, p) == p = 1 \/ s[p - 1] = LF

\* org\.lareferencia\.(backend|core)\.
Prefix(t) == t \in {BACKEND, CORE}

\* the position after the white space that starts at p (\s+ is greedy and the
\* next item of the pattern is no white space)
RECURSIVE SkipSpace(_, _)
SkipSpace(s, p) ==
  IF p <= Len(s) /\ IsSpace(s[p]) THEN SkipSpace(s, p + 1) ELSE p

\* the first semicolon at or after p, 0 when there is none
FirstSemi(s, p) ==
  LET S == {k \in p..Len(s) : s[k] = SEMI}
  IN IF S = {} THEN 0 ELSE Min(S)

\* r'^package\s+org\.lareferencia\.(backend|core)\.[^;]+;' tried at position p:
\* the position of the closing semicolon, 0 when the pattern does not match here
MatchEnd(s, p) ==
  IF /\ p >= 1 /\ p + 1 <= Len(s)
     /\ AtLineStart(s, p)
     /\ s[p] = PKG
     /\ IsSpace(s[p + 1])
  THEN LET q == SkipSpace(s, p + 1)
       IN IF q <= Len(s) /\ Prefix(s[q])
          THEN LET e == FirstSemi(s, q + 1)
               IN IF e > q + 1 THEN e ELSE 0
          ELSE 0
  ELSE 0

MatchStarts(s) == {p \in 1..Len(s) : MatchEnd(s, p) > 0}

\* re.search: the leftmost position where the pattern matches, 0 when none
Search(s) == IF MatchStarts(s) = {} THEN 0 ELSE Min(MatchStarts(s))

\* faulty variant: the replacement without its semicolon
ReplacementNoSemi(new_package) == <<PKG, SP>> \o new_package

\* replacement = f'package {new_package};'
Replacement(new_package) == <<PKG, SP>> \o new_package \o <<SEMI>>

\* re.sub(pattern, replacement, content, count=1, flags=re.MULTILINE)
Sub(content, new_package) ==
  LET p == Search(content)
  IN IF p = 0 THEN content
     ELSE SubSeq(content, 1, p - 1) \o Replacement(new_package)
          \o SubSeq(content, MatchEnd(content, p) + 1, Len(content))

\* faulty variant: the file is written whether or not the text changed
ChangedAlways(new_content, content) == TRUE

\* if new_content != content
Changed(new_content, content) == new_content # content

\* faulty variant: no filter on the name
EndsWithAny(name, suffix) == TRUE

\* file.endswith('.java')
EndsWith(name, suffix) == Len(name) >= 1 /\ name[Len(name)] = suffix

\* ------------------------------------------------------------ the file system
DomainDir == Join(base_path, <<"domain">>)
FooJava == Join(DomainDir, <<"Foo", JAVA>>)
NotesTxt == Join(DomainDir, <<"notes", ".txt">>)
SubDir == Join(DomainDir, <<"sub">>)
DeepJava == Join(SubDir, <<"Deep", JAVA>>)
ValidationDir == Join(base_path, <<"worker", SLASH, "validation">>)
VJava == Join(ValidationDir, <<"V", JAVA>>)
ValidatorDir == Join(ValidationDir, <<"validator">>)
WJava == Join(ValidatorDir, <<"W", JAVA>>)

Nodes ==
  {DomainDir, FooJava, NotesTxt, SubDir, DeepJava, ValidationDir, VJava, ValidatorDir, WJava}

Absent == [kind |-> "absent", data |-> <<>>]
Dir == [kind |-> "dir", data |-> <<>>]
File(bytes) == [kind |-> "file", data |-> bytes]

\* lines a source file is made of, without their line terminator
LineKinds ==
  { <<PKG, SP, CORE, WORD, SEMI>>,        \* package org.lareferencia.core.x;
    <<PKG, SP, SP, BACKEND, WORD, SEMI>>, \* package  org.lareferencia.backend.x;
    <<PKG, SP, WORD, SEMI>>,              \* package x;
    <<WORD, SEMI>>,                       \* import x;
    <<PKG, SP, CORE, WORD>>,              \* package org.lareferencia.core.x
    <<SP, PKG, SP, BACKEND, WORD, SEMI>>, \*  package org.lareferencia.backend.x;
    <<PKG, SP, CORE, "domain", SEMI>>,    \* package org.lareferencia.core.domain;
    <<BADBYTE>> }                         \* a byte that is no UTF-8

LineEnds == { <<LF>>, <<CR, LF>> }

RECURSIVE Lines(_, _)
Lines(n, eol) ==
  IF n = 0 THEN {<<>>}
  ELSE {l \o eol \o rest : l \in LineKinds, rest \in Lines(n - 1, eol)}

\* the contents of one file: up to MaxLines lines, one line terminator throughout
Contents == UNION {Lines(n, eol) : n \in 0..MaxLines, eol \in LineEnds}

\* one-line contents
SimpleContents ==
  { <<PKG, SP, BACKEND, WORD, SEMI, LF>>,
    <<PKG, SP, WORD, SEMI, LF>>,
    <<PKG, SP, CORE, "domain", SEMI, LF>> }

NoFile == <<"none">>
Opt(S) == S \cup {NoFile}
Node(c) == IF c = NoFile THEN Absent ELSE File(c)

\* the tree with these nodes; a path that names nothing is outside its domain
Tree(domain, foo, notes, deep, validation, v, validator, w) ==
  LET all == [n \in Nodes |->
                CASE n = DomainDir -> domain
                  [] n = FooJava -> Node(foo)
                  [] n = NotesTxt -> Node(notes)
                  [] n = SubDir -> IF deep = NoFile THEN Absent ELSE Dir
                  [] n = DeepJava -> Node(deep)
                  [] n = ValidationDir -> validation
                  [] n = VJava -> Node(v)
                  [] n = ValidatorDir -> validator
                  [] n = WJava -> Node(w)]
  IN [n \in {m \in Nodes : all[m].kind # "absent"} |-> all[n]]

\* one source file with any content
OneFileTrees ==
  {Tree(Dir, c, NoFile, NoFile, Absent, NoFile, Absent, NoFile) : c \in Contents}

\* several files with one-line contents; a mapped path may be missing, a
\* directory or a regular file
DomainTrees ==
  {<<Absent, NoFile, NoFile, NoFile>>, <<File(<<WORD, LF>>), NoFile, NoFile, NoFile>>}
  \cup {<<Dir, foo, notes, deep>> :
          foo \in Opt(SimpleContents), notes \in Opt(SimpleContents),
          deep \in Opt(SimpleContents)}

WorkerTrees ==
  {<<Absent, NoFile, Absent, NoFile>>}
  \cup {<<Dir, v, Absent, NoFile>> : v \in Opt(SimpleContents)}
  \cup {<<Dir, v, Dir, w>> : v \in Opt(SimpleContents), w \in Opt(SimpleContents)}

ManyFileTrees ==
  {Tree(d[1], d[2], d[3], d[4], k[1], k[2], k[3], k[4]) : d \in DomainTrees, k \in WorkerTrees}

Trees == OneFileTrees \cup ManyFileTrees

\* ------------------------------------------------------------------- state
VARIABLES
  fs,             \* the file system: node path -> [kind, data]
  pc,             \* the statement the run is at
  idx,            \* position of the for loop of main in Items
  total_updated,  \* main: total_updated
  count,          \* process_directory: count
  listing,        \* process_directory: the entries of os.listdir not yet visited
  file,           \* process_directory: file
  content,        \* update_package_declaration: content
  new_content,    \* update_package_declaration: new_content
  handles,        \* the open file objects
  trace,          \* what the run printed and which file operations it made, in order
  fs0,            \* the file system when the run started
  run,            \* number of the run
  prev            \* the totals printed by the earlier runs

vars ==
  <<fs, pc, idx, total_updated, count, listing, file, content, new_content,
    handles, trace, fs0, run, prev>>

Ev(ev, i, path, arg, n) == [ev |-> ev, i |-> i, path |-> path, arg |-> arg, n |-> n]

\* os.path.exists(p)
Exists(p) == p \in DOMAIN fs

Kind(p) == IF p \in DOMAIN fs THEN fs[p].kind ELSE "absent"

\* the paths, relative to p, of everything below p
Below(p) ==
  {SubSeq(q, Len(p) + 2, Len(q)) :
     q \in {r \in DOMAIN fs : /\ Exists(r)
                              /\ Len(r) > Len(p) + 1
                              /\ SubSeq(r, 1, Len(p) + 1) = p \o <<SLASH>>}}

\* os.listdir(p): the names of the entries directly inside p
ListDir(p) == {name \in Below(p) : \A k \in 1..Len(name) : name[k] # SLASH}

relative_path == Items[idx].path
new_package == Items[idx].pkg
full_path == Join(base_path, relative_path)
file_path == Join(full_path, file)

Init ==
  /\ fs \in Trees
  /\ fs0 = fs
  /\ pc = "main"
  /\ idx = 0
  /\ total_updated = 0
  /\ count = 0
  /\ listing = {}
  /\ file = <<>>
  /\ content = <<>>
  /\ new_content = <<>>
  /\ handles = {}
  /\ trace = <<>>
  /\ run = 1
  /\ prev = <<>>

\* ----------------------------------------------------------------- the run
Log(e) == trace' = Append(trace, e)

\* faulty variant: the exception is caught in the loop over the files, which
\* goes on with the next file
Caught == "loop"

\* no try statement anywhere: an exception ends the run
Uncaught == "aborted"

\* faulty variant: the file object is never closed
ExitWithLeak(h) == handles

\* leaving a with block closes its file object
ExitWith(h) == handles \ {h}

\* an exception leaves update_package_declaration, process_directory and main
Raise(what, path) ==
  /\ pc' = Uncaught
  /\ Log(Ev("error", idx, path, what, 0))
  /\ handles' = {}
  /\ content' = <<>>
  /\ new_content' = <<>>

\* main: total_updated = 0; print(banner)
PrintBanner ==
  /\ pc = "main"
  /\ total_updated' = 0
  /\ Log(Ev("banner", 0, <<>>, <<>>, 0))
  /\ idx' = 1
  /\ pc' = "for"
  /\ UNCHANGED <<fs, count, listing, file, content, new_content, handles, fs0, run, prev>>

\* main: the next entry of the mapping; print(relative_path -> new_package)
PrintProgress ==
  /\ pc = "for"
  /\ idx <= Len(Items)
  /\ Log(Ev("progress", idx, relative_path, new_package, 0))
  /\ pc' = "exists"
  /\ UNCHANGED <<fs, idx, total_updated, count, listing, file, content, new_content,
                 handles, fs0, run, prev>>

\* process_directory: if not os.path.exists(full_path): return 0;
\* main: total_updated += count
SkipMissing ==
  /\ pc = "exists"
  /\ ~Exists(full_path)
  /\ Log(Ev("ret_dir", idx, relative_path, <<>>, 0))
  /\ total_updated' = total_updated + 0
  /\ idx' = idx + 1
  /\ pc' = "for"
  /\ UNCHANGED <<fs, count, listing, file, content, new_content, handles, fs0, run, prev>>

\* process_directory: count = 0; os.listdir(full_path)
EnterDirectory ==
  /\ pc = "exists"
  /\ Exists(full_path)
  /\ count' = 0
  /\ IF Kind(full_path) = "dir"
     THEN /\ listing' = ListDir(full_path)
          /\ pc' = "loop"
          /\ UNCHANGED <<trace, handles, content, new_content>>
     ELSE /\ Raise("NotADirectoryError", full_path)
          /\ UNCHANGED listing
  /\ UNCHANGED <<fs, idx, total_updated, file, fs0, run, prev>>

\* process_directory: for file in ...: if file.endswith('.java'); the order of
\* os.listdir is arbitrary
NextFile ==
  /\ pc = "loop"
  /\ \E f \in listing :
       /\ listing' = listing \ {f}
       /\ IF EndsWith(f, JAVA)
          THEN file' = f /\ pc' = "open_r"
          ELSE file' = <<>> /\ pc' = "loop"
  /\ UNCHANGED <<fs, idx, total_updated, count, content, new_content, handles, trace,
                 fs0, run, prev>>

\* process_directory: return count; main: total_updated += count
ReturnCount ==
  /\ pc = "loop"
  /\ listing = {}
  /\ Log(Ev("ret_dir", idx, relative_path, <<>>, count))
  /\ total_updated' = total_updated + count
  /\ count' = 0
  /\ file' = <<>>
  /\ idx' = idx + 1
  /\ pc' = "for"
  /\ UNCHANGED <<fs, listing, content, new_content, handles, fs0, run, prev>>

\* update_package_declaration: open(file_path, 'r', encoding='utf-8')
OpenRead ==
  /\ pc = "open_r"
  /\ Kind(file_path) = "file"
  /\ handles' = handles \cup {[path |-> file_path, mode |-> "r"]}
  /\ Log(Ev("open_r", idx, file_path, <<>>, 0))
  /\ pc' = "read"
  /\ UNCHANGED <<fs, idx, total_updated, count, listing, file, content, new_content,
                 fs0, run, prev>>

\* open fails: the entry is a directory, or the file may not be read
OpenReadFail ==
  /\ pc = "open_r"
  /\ Raise(IF Kind(file_path) = "dir" THEN "IsADirectoryError" ELSE "PermissionError",
           file_path)
  /\ UNCHANGED <<fs, idx, total_updated, count, listing, file, fs0, run, prev>>

\* update_package_declaration: content = f.read()
Read ==
  /\ pc = "read"
  /\ IF Decodable(fs[file_path].data)
     THEN /\ content' = ReadText(fs[file_path].data)
          /\ Log(Ev("read", idx, file_path, <<>>, 0))
          /\ pc' = "close_r"
          /\ UNCHANGED <<handles, new_content>>
     ELSE Raise("UnicodeDecodeError", file_path)
  /\ UNCHANGED <<fs, idx, total_updated, count, listing, file, fs0, run, prev>>

\* update_package_declaration: the end of the first with block
CloseRead ==
  /\ pc = "close_r"
  /\ handles' = ExitWith([path |-> file_path, mode |-> "r"])
  /\ Log(Ev("close_r", idx, file_path, <<>>, 0))
  /\ pc' = "sub"
  /\ UNCHANGED <<fs, idx, total_updated, count, listing, file, content, new_content,
                 fs0, run, prev>>

\* update_package_declaration: new_content = re.sub(...)
Substitute ==
  /\ pc = "sub"
  /\ new_content' = Sub(content, new_package)
  /\ pc' = "cmp"
  /\ UNCHANGED <<fs, idx, total_updated, count, listing, file, content, handles, trace,
                 fs0, run, prev>>

\* update_package_declaration: if new_content != content: ... ; return False
Compare ==
  /\ pc = "cmp"
  /\ IF Changed(new_content, content)
     THEN /\ pc' = "open_w"
          /\ UNCHANGED <<trace, content, new_content>>
     ELSE /\ Log(Ev("ret_upd", idx, file_path, <<>>, 0))
          /\ content' = <<>>
          /\ new_content' = <<>>
          /\ pc' = "loop"
  /\ UNCHANGED <<fs, idx, total_updated, count, listing, file, handles, fs0, run, prev>>

\* update_package_declaration: open(file_path, 'w', encoding='utf-8') truncates
OpenWrite ==
  /\ pc = "open_w"
  /\ fs' = [fs EXCEPT ![file_path].data = <<>>]
  /\ handles' = handles \cup {[path |-> file_path, mode |-> "w"]}
  /\ Log(Ev("open_w", idx, file_path, <<>>, 0))
  /\ pc' = "write"
  /\ UNCHANGED <<idx, total_updated, count, listing, file, content, new_content,
                 fs0, run, prev>>

\* open fails: the file may not be written
OpenWriteFail ==
  /\ pc = "open_w"
  /\ Raise("PermissionError", file_path)
  /\ UNCHANGED <<fs, idx, total_updated, count, listing, file, fs0, run, prev>>

\* update_package_declaration: f.write(new_content)
Write ==
  /\ pc = "write"
  /\ fs' = [fs EXCEPT ![file_path].data = WriteText(new_content)]
  /\ Log(Ev("write", idx, file_path, <<>>, 0))
  /\ pc' = "close_w"
  /\ UNCHANGED <<idx, total_updated, count, listing, file, content, new_content,
                 handles, fs0, run, prev>>

\* the write fails (no space left): the file keeps a part of the new content
WriteFail ==
  /\ pc = "write"
  /\ \E k \in 0..(Len(WriteText(new_content)) - 1) :
       fs' = [fs EXCEPT ![file_path].data = SubSeq(WriteText(new_content), 1, k)]
  /\ Raise("OSError", file_path)
  /\ UNCHANGED <<idx, total_updated, count, listing, file, fs0, run, prev>>

\* update_package_declaration: the end of the second with block; return True
CloseWrite ==
  /\ pc = "close_w"
  /\ handles' = ExitWith([path |-> file_path, mode |-> "w"])
  /\ trace' = trace \o << Ev("close_w", idx, file_path, <<>>, 0),
                          Ev("ret_upd", idx, file_path, <<>>, 1) >>
  /\ content' = <<>>
  /\ new_content' = <<>>
  /\ pc' = "confirm"
  /\ UNCHANGED <<fs, idx, total_updated, count, listing, file, fs0, run, prev>>

\* process_directory: count += 1; print(relative_path/file)
Confirm ==
  /\ pc = "confirm"
  /\ count' = count + 1
  /\ Log(Ev("ok", idx, Join(relative_path, file), <<>>, 0))
  /\ pc' = "loop"
  /\ UNCHANGED <<fs, idx, total_updated, listing, file, content, new_content, handles,
                 fs0, run, prev>>

\* main: print(total_updated)
PrintTotal ==
  /\ pc = "for"
  /\ idx > Len(Items)
  /\ Log(Ev("total", 0, <<>>, <<>>, total_updated))
  /\ pc' = "done"
  /\ UNCHANGED <<fs, idx, total_updated, count, listing, file, content, new_content,
                 handles, fs0, run, prev>>

\* the script is started again after a run that completed
Rerun ==
  /\ pc = "done"
  /\ run < MaxRuns
  /\ run' = run + 1
  /\ prev' = Append(prev, total_updated)
  /\ fs0' = fs
  /\ trace' = <<>>
  /\ pc' = "main"
  /\ idx' = 0
  /\ total_updated' = 0
  /\ UNCHANGED <<fs, count, listing, file, content, new_content, handles>>

Next ==
  \/ PrintBanner
  \/ PrintProgress
  \/ SkipMissing
  \/ EnterDirectory
  \/ NextFile
  \/ ReturnCount
  \/ OpenRead
  \/ OpenReadFail
  \/ Read
  \/ CloseRead
  \/ Substitute
  \/ Compare
  \/ OpenWrite
  \/ OpenWriteFail
  \/ Write
  \/ WriteFail
  \/ CloseWrite
  \/ Confirm
  \/ PrintTotal

Spec == Init /\ [][Next]_vars

NextTwice == Next \/ Rerun

SpecTwice == Init /\ [][NextTwice]_vars

\* ============================================================== properties
TraceIdx == 1..Len(trace)
FileOps == {"open_r", "read", "close_r", "open_w", "write", "close_w"}
FilesAtStart == {p \in DOMAIN fs0 : fs0[p].kind = "file"}
MappedDir(i) == base_path \o <<SLASH>> \o PACKAGE_MAPPINGS[i].path
KindAtStart(p) == IF p \in DOMAIN fs0 THEN fs0[p].kind ELSE "absent"
Entries == 1..Len(PACKAGE_MAPPINGS)

\* p names an entry directly inside directory d
IsDirectChild(p, d) ==
  /\ Len(p) > Len(d) + 1
  /\ \A k \in 1..Len(d) : p[k] = d[k]
  /\ p[Len(d) + 1] = SLASH
  /\ \A k \in (Len(d) + 2)..Len(p) : p[k] # SLASH

IsJavaName(p) == p[Len(p)] = ".java"

\* the text starts with package org.lareferencia.(backend|core).<name>;
BeginsWithDeclaration(s) ==
  /\ Len(s) >= 5
  /\ s[1] = "package" /\ s[2] = " "
  /\ s[3] \in {"org.lareferencia.backend.", "org.lareferencia.core."}
  /\ s[4] \notin {" ", "\n", "\r", ";", "package", "0xFF"}
  /\ s[5] = ";"

\* positions where a line of s begins with the word package and white space
PackageLines(s) ==
  {p \in 1..(Len(s) - 1) :
     /\ p = 1 \/ s[p - 1] \in {"\n", "\r"}
     /\ s[p] = "package"
     /\ s[p + 1] \in {" ", "\n", "\r"}}

\* the first token after the white space that follows position p
NameAfter(s, p) ==
  LET R == {q \in (p + 1)..Len(s) : s[q] \notin {" ", "\n", "\r"}}
  IN IF R = {} THEN "" ELSE s[Min(R)]

OldPrefixes == {"org.lareferencia.backend.", "org.lareferencia.core."}

\* the file has a package line and the name it declares has neither prefix
ForeignPackageLine(s) ==
  /\ PackageLines(s) # {}
  /\ NameAfter(s, Min(PackageLines(s))) \notin OldPrefixes

\* C1: at the end of a run, every .java file directly inside an existing
\* mapped directory that began with package org.lareferencia.(backend|core).<name>;
\* holds package <target of the directory>; followed by exactly the bytes that
\* followed the declaration before the run.
C1_OnlyDeclarationReplaced ==
  pc = "done" =>
    \A i \in Entries : \A p \in FilesAtStart :
      ( /\ KindAtStart(MappedDir(i)) = "dir"
        /\ IsDirectChild(p, MappedDir(i))
        /\ IsJavaName(p)
        /\ BeginsWithDeclaration(fs0[p].data) )
      => fs[p].data = <<"package", " ">> \o PACKAGE_MAPPINGS[i].pkg \o <<";">>
                      \o SubSeq(fs0[p].data, 6, Len(fs0[p].data))

\* C2 as stated: after a run, a file whose package line has neither prefix is
\* unchanged and was not counted, whatever its other lines hold.
C2_ForeignNeverTouched ==
  pc = "done" =>
  \A p \in FilesAtStart :
    ForeignPackageLine(fs0[p].data)
    => /\ fs[p].data = fs0[p].data
       /\ \A k \in TraceIdx : ~(trace[k].ev = "ret_upd" /\ trace[k].path = p /\ trace[k].n = 1)

\* no line of s begins with package, white space and one of the two prefixes
NoOldDeclarationLine(s) ==
  \A p \in PackageLines(s) : NameAfter(s, p) \notin OldPrefixes

\* C2 amended: a file whose package line has neither prefix, and in which no
\* other line begins with package, white space and one of the two prefixes,
\* is unchanged and not counted at every point of a run, hence after it.
C2_ForeignUntouched ==
  \A p \in FilesAtStart :
    (ForeignPackageLine(fs0[p].data) /\ NoOldDeclarationLine(fs0[p].data))
    => /\ fs[p].data = fs0[p].data
       /\ \A k \in TraceIdx : ~(trace[k].ev = "ret_upd" /\ trace[k].path = p /\ trace[k].n = 1)

\* a completed run visited a file with a foreign package line and an indented
\* old declaration, and left it alone
C2_Witness ==
  /\ pc = "done"
  /\ \E p \in FilesAtStart :
       /\ ForeignPackageLine(fs0[p].data) /\ NoOldDeclarationLine(fs0[p].data)
       /\ \E k \in 1..Len(fs0[p].data) : fs0[p].data[k] \in OldPrefixes
       /\ \E k \in TraceIdx : trace[k].ev = "ret_upd" /\ trace[k].path = p /\ trace[k].n = 0

\* C3: in a run that follows a completed run, no file is opened for writing or
\* written, no file is reported, every count is 0 and the file system stays
\* as the earlier run left it.
C3_SecondRunIdle ==
  run >= 2 =>
    /\ fs = fs0
    /\ total_updated = 0 /\ count = 0
    /\ \A k \in TraceIdx :
         /\ trace[k].ev \notin {"open_w", "write", "close_w", "ok"}
         /\ trace[k].n = 0

\* the second run completed after a first run that updated two files
C3_Witness == run = 2 /\ pc = "done" /\ prev[1] >= 2

\* C4: while an entry whose path is no directory is processed, nothing is read
\* or written and no error is raised: the entry prints its progress line and
\* returns 0.
C4_MissingIsSkipped ==
  \A k \in TraceIdx :
    (trace[k].i \in Entries /\ KindAtStart(MappedDir(trace[k].i)) # "dir")
    => /\ trace[k].ev \in {"progress", "ret_dir"}
       /\ trace[k].n = 0

\* C5: every file operation of an entry is on a .java entry directly inside
\* that entry's directory; only such files ever change; and no file outside
\* an entry's directory ever receives that entry's target package.
C5_OnlyDirectJavaFiles ==
  /\ \A k \in TraceIdx :
       trace[k].ev \in FileOps
       => /\ trace[k].i \in Entries
          /\ IsDirectChild(trace[k].path, MappedDir(trace[k].i))
          /\ IsJavaName(trace[k].path)
  /\ \A p \in DOMAIN fs :
       fs[p] # fs0[p]
       => IsJavaName(p) /\ \E i \in Entries : IsDirectChild(p, MappedDir(i))
  /\ \A i \in Entries : \A p \in DOMAIN fs :
       ~IsDirectChild(p, MappedDir(i))
       => \A k \in 1..Len(fs[p].data) :
            fs[p].data[k] = PACKAGE_MAPPINGS[i].pkg[2]
            => \E j \in 1..Len(fs0[p].data) : fs0[p].data[j] = fs[p].data[k]

\* a completed run rewrote a file in worker/validation and one in
\* worker/validation/validator, next to a .txt file and a file in a
\* subdirectory that both hold an old declaration
C5_Witness ==
  /\ pc = "done"
  /\ {VJava, WJava, NotesTxt, DeepJava} \subseteq DOMAIN fs
  /\ fs[VJava] # fs0[VJava]
  /\ fs[WJava] # fs0[WJava]
  /\ BeginsWithDeclaration(fs0[NotesTxt].data)
  /\ BeginsWithDeclaration(fs0[DeepJava].data)

\* C6: an error is the last thing a run does: nothing is read, written or
\* printed after it, no total is printed, and every file reported as updated
\* before it holds its new content.
C6_ErrorEndsRun ==
  /\ \A k \in TraceIdx : trace[k].ev = "error" => (k = Len(trace) /\ pc = "aborted")
  /\ pc = "aborted" =>
       /\ trace # <<>> /\ trace[Len(trace)].ev = "error"
       /\ \A k \in TraceIdx : trace[k].ev # "total"
       /\ \A k \in TraceIdx :
            (trace[k].ev = "ret_upd" /\ trace[k].n = 1)
            => /\ fs[trace[k].path].data # fs0[trace[k].path].data
               /\ fs[trace[k].path].data =
                    WriteText(Sub(ReadText(fs0[trace[k].path].data),
                                  PACKAGE_MAPPINGS[trace[k].i].pkg))

\* a run was aborted after it had updated a file
C6_Witness ==
  /\ pc = "aborted"
  /\ \E k \in TraceIdx : trace[k].ev = "ret_upd" /\ trace[k].n = 1

RECURSIVE SumOf(_, _)
SumOf(t, ev) ==
  IF t = <<>> THEN 0
  ELSE (IF t[1].ev = ev THEN t[1].n ELSE 0) + SumOf(Tail(t), ev)

CountOf(ev) == Cardinality({k \in TraceIdx : trace[k].ev = ev})

\* C7: the total printed by a completed run is the sum of the counts the
\* entries returned, the number of files whose bytes differ from those at the
\* start of the run, and the number of confirmation lines; and
\* update_package_declaration returns true exactly when it wrote the file and
\* the file's bytes now differ.
C7_TotalIsChangedFiles ==
  /\ pc = "done" =>
       /\ trace[Len(trace)].ev = "total"
       /\ trace[Len(trace)].n = SumOf(trace, "ret_dir")
       /\ trace[Len(trace)].n = Cardinality({p \in DOMAIN fs : fs[p] # fs0[p]})
       /\ trace[Len(trace)].n = CountOf("ok")
       /\ CountOf("ret_dir") = Len(PACKAGE_MAPPINGS)
  /\ \A k \in TraceIdx :
       trace[k].ev = "ret_upd"
       => /\ trace[k].n = 1 <=> fs[trace[k].path].data # fs0[trace[k].path].data
          /\ trace[k].n = 1 <=>
               \E j \in 1..(k - 1) : trace[j].ev = "write" /\ trace[j].path = trace[k].path

\* a completed run updated two files and returned false for a file that holds
\* an old-style declaration equal to its replacement
C7_Witness ==
  /\ pc = "done"
  /\ total_updated >= 2
  /\ \E k \in TraceIdx :
       /\ trace[k].ev = "ret_upd" /\ trace[k].n = 0
       /\ BeginsWithDeclaration(fs0[trace[k].path].data)

\* C8: once update_package_declaration has returned for a file: with no match
\* in the file it returned false and never opened the file for writing; with a
\* match, the file holds its former bytes with the first match replaced by
\* package <new_package>; and everything before and after that match, later
\* matches included, exactly as it was.
C8_FirstMatchOnly ==
  \A k \in TraceIdx :
    trace[k].ev = "ret_upd" =>
      LET p == trace[k].path
          s == fs0[p].data
          a == Search(s)
          b == MatchEnd(s, a)
      IN IF a = 0
         THEN /\ trace[k].n = 0
              /\ fs[p].data = s
              /\ \A j \in TraceIdx : ~(trace[j].ev = "open_w" /\ trace[j].path = p)
         ELSE Cardinality(MatchStarts(s)) >= 2
              => fs[p].data = SubSeq(s, 1, a - 1)
                              \o <<"package", " ">> \o PACKAGE_MAPPINGS[trace[k].i].pkg \o <<";">>
                              \o SubSeq(s, b + 1, Len(s))

\* the last progress line before position k, 0 when there is none
LastProgress(k) ==
  LET P == {j \in 1..(k - 1) : trace[j].ev = "progress"}
  IN IF P = {} THEN 0 ELSE CHOOSE m \in P : \A n \in P : n <= m

\* C9: the banner is printed first and once; the j-th progress line is that of
\* the j-th entry of the mapping, printed right after the banner or after the
\* previous entry returned; every file operation and confirmation line of an
\* entry lies after that entry's progress line and before the next one; a
\* confirmation line follows the write and close of its file; the total is
\* printed once, last, after all entries, missing directories included.
C9_MappingOrder ==
  /\ \A k \in TraceIdx : trace[k].ev = "banner" <=> k = 1
  /\ \A k \in TraceIdx :
       trace[k].ev = "progress"
       => /\ trace[k].i = 1 + Cardinality({j \in 1..(k - 1) : trace[j].ev = "progress"})
          /\ trace[k].i \in Entries
          /\ trace[k].path = PACKAGE_MAPPINGS[trace[k].i].path
          /\ trace[k].arg = PACKAGE_MAPPINGS[trace[k].i].pkg
          /\ trace[k - 1].ev = "banner"
             \/ (trace[k - 1].ev = "ret_dir" /\ trace[k - 1].i = trace[k].i - 1)
  /\ \A k \in TraceIdx :
       trace[k].ev \in FileOps \cup {"ok", "ret_upd", "ret_dir", "error"}
       => /\ LastProgress(k) > 0
          /\ trace[LastProgress(k)].i = trace[k].i
  /\ \A k \in TraceIdx :
       trace[k].ev = "ok"
       => \E w \in 1..(k - 1) : \E c \in (w + 1)..(k - 1) :
            /\ trace[w].ev = "write" /\ trace[c].ev = "close_w"
            /\ trace[w].path = base_path \o <<SLASH>> \o trace[k].path
            /\ trace[c].path = trace[w].path
            /\ fs[trace[w].path].data # fs0[trace[w].path].data
  /\ \A k \in TraceIdx :
       trace[k].ev = "total" => (k = Len(trace) /\ pc = "done")
  /\ pc = "done" =>
       /\ trace[Len(trace)].ev = "total"
       /\ CountOf("progress") = Len(PACKAGE_MAPPINGS)
       /\ trace[Len(trace) - 1].ev = "ret_dir"
       /\ trace[Len(trace) - 1].i = Len(PACKAGE_MAPPINGS)

\* a completed run printed confirmation lines for two entries
C9_Witness ==
  /\ pc = "done"
  /\ \E j, k \in TraceIdx :
       trace[j].ev = "ok" /\ trace[k].ev = "ok" /\ trace[j].i # trace[k].i

Opens(k) == {j \in 1..k : trace[j].ev \in {"open_r", "open_w"}}
Closes(k) == {j \in 1..k : trace[j].ev \in {"close_r", "close_w"}}

\* C10: at most one file is open; a file is opened only when every file
\* opened before has been closed; a file is opened for writing only after it
\* was read and its read handle closed; a run reads a file at most once and
\* writes it at most once.
C10_OneFileAtATime ==
  /\ Cardinality(handles) <= 1
  /\ \A h \in handles : pc \in {"read", "close_r", "write", "close_w"} /\ h.path = file_path
  /\ \A k \in TraceIdx :
       trace[k].ev \in {"open_r", "open_w"}
       => Cardinality(Opens(k - 1)) = Cardinality(Closes(k - 1))
  /\ \A k \in TraceIdx :
       trace[k].ev = "open_w"
       => \E r \in 1..(k - 1) : \E c \in (r + 1)..(k - 1) :
            /\ trace[r].ev = "read" /\ trace[r].path = trace[k].path
            /\ trace[c].ev = "close_r" /\ trace[c].path = trace[k].path
  /\ \A j, k \in TraceIdx :
       ( /\ j # k
         /\ trace[j].ev \in {"read", "write"}
         /\ trace[k].ev = trace[j].ev )
       => trace[j].path # trace[k].path

\* a completed run read three files and wrote two of them
C10_Witness ==
  /\ pc = "done"
  /\ CountOf("read") >= 3
  /\ CountOf("write") >= 2

====
